---- MODULE Spec2Model ----
(***************************************************************************)
(* State-machine model of the terminal audio player in src/src/main.rs:    *)
(* the shared sample buffer filled by SampleCapturer, the AudioPlayer      *)
(* engine wrapper, and the App transport driven by run_app's loop          *)
(* (update_playback, draw, poll one key).                                  *)
(*                                                                         *)
(* Conventions.                                                            *)
(*  - Option<T> is a sequence: None is << >>, Some(x) is <<x>>.            *)
(*  - Vec indices are 0-based as in the source; items[i] of the source is  *)
(*    items[i + 1] here.                                                   *)
(*  - f32 amplitudes are fixed point in hundredths (0.05 is 5, 0.95 is 95).*)
(*  - Durations are whole seconds.  An Instant is represented by the time  *)
(*    elapsed since it, which is all the program ever reads of it.         *)
(***************************************************************************)
EXTENDS Integers, Sequences, FiniteSets, TLC

\* ------------------------------------------------------------------ bounds

\* Capacity of the shared buffer: 8192 in the source, scaled down so that
\* eviction is reached after a handful of pushes.
max_size == 4

\* Transform window: 2048 in the source, scaled with the buffer.
FFT_SIZE == 2

\* Number of bars of the histogram: 32 in the source.
num_bars == 2

\* Samples held by the long track of the "long" disk (more than max_size).
LongLen == 6

\* Largest elapsed time the wall clock is followed to, in seconds.
MaxElapsed == 2

\* Furthest the cursor is followed past the end of an empty list.
MaxOverrun == 2

\* ------------------------------------------------------- program constants

\* unwrap_or(Duration::from_secs(180))
DefaultDuration == 180

\* histogram: vec![0.1; 32]
InitialBar == 10

\* clamp(0.05, 0.95) and the floor of the idle decay
BarFloor == 5

BarCeil == 95

\* volume: 0.5 of AudioPlayer::new, in hundredths
InitialVolume == 50

\* self.volume + 0.05, self.volume - 0.05
VolumeDelta == 5

\* volume.clamp(0.0, 1.0)
VolumeMax == 100

\* let min_freq: f32 = 60.0; let max_freq: f32 = 16000.0;
min_freq == 60

max_freq == 16000

\* ------------------------------------------------------------------ options

None == << >>

Some(x) == <<x>>

IsSome(o) == o # << >>

Unwrap(o) == o[1]

MinOf(S) == CHOOSE x \in S : \A y \in S : x <= y

MaxOf(S) == CHOOSE x \in S : \A y \in S : x >= y

\* ------------------------------------------------------- the file system
\* What is on disk is the environment of the program.  Seven disks:
\*   "tree": the process starts in /m, which holds two sub-directories and two
\*           tracks; every track is short and silent;
\*   "long": the process starts in /, which holds one track longer than the
\*           buffer;
\*   "loud": the process starts in /, which holds one track of one transform
\*           window with signal in it;
\*   "one":  the process starts in /, which holds one short silent track;
\*   "pair": the process starts in /, which holds two short silent tracks;
\*   "rates": the process starts in /, which holds two silent tracks of one
\*           transform window, one whose source reports a sample rate of 0
\*           and one whose Nyquist frequency is below max_freq;
\*   "empty": the process starts in /, a root that holds no directory and no
\*           audio file (the root has no parent, so no ".." is listed).
\* Paths are those the program builds: load_directory pushes the literal ".."
\* when current_dir has a parent and entry.path() (current_dir joined with the
\* name) for the rest, and sorts by PathBuf order.  An absolute path sorts
\* before ".." (Component::RootDir < Component::ParentDir); ".." sorts before
\* every "../x".  A directory entered through ".." is named relative to the
\* process's working directory, which never changes.

Disks == {"tree", "long", "loud", "one", "pair", "rates", "empty"}

StartDir(d) == IF d = "tree" THEN "/m" ELSE "/"

\* fs::read_dir + the ".." push + sort of load_directory, per directory.
Listing(d, dir) ==
    CASE dir = "/m"      -> <<"/m/a", "/m/b.mp3", "/m/c", "/m/d.mp3", "..">>
      [] dir = "/m/a"    -> <<"/m/a/f.mp3", "..">>
      [] dir = "/m/c"    -> <<"..">>
      [] dir = ".."      -> <<"..", "../m">>
      [] dir = "../m"    -> <<"..", "../m/a", "../m/b.mp3", "../m/c", "../m/d.mp3">>
      [] dir = "../m/a"  -> <<"..", "../m/a/f.mp3">>
      [] dir = "../m/c"  -> <<"..">>
      [] dir = "/" /\ d = "long" -> <<"/long.wav">>
      [] dir = "/" /\ d = "loud" -> <<"/loud.wav">>
      [] dir = "/" /\ d = "one"  -> <<"/one.wav">>
      [] dir = "/" /\ d = "pair" -> <<"/x.wav", "/y.wav">>
      [] dir = "/" /\ d = "rates" -> <<"/r0.wav", "/r8k.wav">>
      [] OTHER           -> << >>

\* path.is_dir()
IsDir(path) == path \in {"..", "/m/a", "/m/c", "../m", "../m/a", "../m/c"}

\* path.file_name() == Some(OsStr::new("..")).  Path::file_name returns None
\* for a path that terminates in "..", so the comparison is false for the
\* parent marker as for every other entry.
FileNameIsDotDot(path) == FALSE

\* current_dir.parent(), for the branch of select_item that uses it.
ParentOf(dir) ==
    CASE dir \in {"/m/a", "/m/c"}     -> Some("/m")
      [] dir \in {"../m/a", "../m/c"} -> Some("../m")
      [] dir = "../m"                 -> Some("..")
      [] dir = "/m"                   -> Some("/")
      [] dir = ".."                   -> Some("")
      [] OTHER                        -> None

\* The test of play_track_at_index, play_next_track and play_previous_track.
Playable(path) == ~IsDir(path) /\ ~FileNameIsDotDot(path)

\* Number of samples the decoder of a track yields.
TrackLen(path) ==
    CASE path = "/long.wav" -> LongLen
      [] path = "/loud.wav" -> FFT_SIZE
      [] path \in {"/r0.wav", "/r8k.wav"} -> FFT_SIZE
      [] OTHER              -> 1

\* source.total_duration()
TrackDuration(path) ==
    CASE path \in {"/m/b.mp3", "../m/b.mp3", "/loud.wav"} -> None
      [] OTHER -> Some(1)

\* source.sample_rate()
TrackRate(path) ==
    CASE path = "/loud.wav" -> 1000
      [] path = "/long.wav" -> 8000
      [] path = "/r0.wav"   -> 0
      [] path = "/r8k.wav"  -> 8000
      [] OTHER              -> 44100

\* Band magnitudes a transform of the track's samples can show (the transform
\* is an external primitive): a silent track shows 0 in every bin.
TrackLevels(path) == IF path = "/loud.wav" THEN {0, 1, 4} ELSE {0}

\* The k-th sample of a track.
Sample(path, k) == <<path, k>>

\* --------------------------------------------------------- the program state

VARIABLES
    disk,                 \* what is on disk (environment, never changes)
    current_dir,          \* App.current_dir
    items,                \* App.items
    cursor,               \* App.list_state.selected()
    selected_track,       \* App.selected_track
    current_track_index,  \* App.current_track_index
    is_playing,           \* App.is_playing
    continuous_play,      \* App.continuous_play
    current_time,         \* App.current_time
    total_time,           \* App.total_time
    playback_start,       \* App.playback_start, as playback_start.elapsed()
    histogram,            \* App.histogram
    error_message,        \* App.error_message
    sink,                 \* AudioPlayer.sink: the track queued, the decoder position,
                          \* what its tap returned last, the factor of amplify()
                          \* and the sink's own volume
    audio_buffer,         \* AudioPlayer.audio_buffer, shared with SampleCapturer
    sample_rate,          \* AudioPlayer.sample_rate
    total_duration,       \* AudioPlayer.total_duration
    volume,               \* AudioPlayer.volume, in hundredths
    lock,                 \* owner of the Mutex of audio_buffer: "free", "ui", "audio"
    tap,                  \* the audio thread inside SampleCapturer::next: the
                          \* sample it took from its input and how far it got
    snapshot,             \* the Vec get_audio_samples collects, then the
                          \* samples of analyze_audio
    pc,                   \* run_app: "tick", "input", "exited" or "panicked";
                          \* main before and after run_app
    terminal,             \* the terminal main drives: raw mode and the
                          \* alternate screen, on or off
    last                  \* the handler that ran last and what it asked of the engine

vars == <<disk, current_dir, items, cursor, selected_track, current_track_index,
          is_playing, continuous_play, current_time, total_time, playback_start,
          histogram, error_message, sink, audio_buffer, sample_rate,
          total_duration, volume, lock, tap, snapshot, pc, terminal, last>>

\* The fields of App and of its AudioPlayer as one record, so that a method is
\* an operator from state to state.  The last four fields are not fields of the
\* program: panicked is set by an index out of range, io_error by an Err that
\* select_item returns, asked by play_track_at_index reaching the engine (the
\* index it asks for), engine by AudioPlayer::play ("ok" or "err") and arg by
\* set_volume (its argument).
St ==
    [current_dir |-> current_dir, items |-> items, cursor |-> cursor,
     selected_track |-> selected_track,
     current_track_index |-> current_track_index,
     is_playing |-> is_playing, continuous_play |-> continuous_play,
     current_time |-> current_time, total_time |-> total_time,
     playback_start |-> playback_start, histogram |-> histogram,
     error_message |-> error_message, sink |-> sink,
     audio_buffer |-> audio_buffer, sample_rate |-> sample_rate,
     total_duration |-> total_duration, volume |-> volume,
     panicked |-> FALSE, io_error |-> FALSE,
     asked |-> None, engine |-> "none", arg |-> None]

\* The primed fields are those of record s.
Becomes(s) ==
    /\ current_dir' = s.current_dir
    /\ items' = s.items
    /\ cursor' = s.cursor
    /\ selected_track' = s.selected_track
    /\ current_track_index' = s.current_track_index
    /\ is_playing' = s.is_playing
    /\ continuous_play' = s.continuous_play
    /\ current_time' = s.current_time
    /\ total_time' = s.total_time
    /\ playback_start' = s.playback_start
    /\ histogram' = s.histogram
    /\ error_message' = s.error_message
    /\ sink' = s.sink
    /\ audio_buffer' = s.audio_buffer
    /\ sample_rate' = s.sample_rate
    /\ total_duration' = s.total_duration
    /\ volume' = s.volume

\* ------------------------------------------------------------ SampleCapturer

\* Mutant of PushSample: the capacity test is dropped.
PushSampleNoEvict(buf, sample) == Append(buf, sample)

\* Mutant of PushSample: pop_back in place of pop_front.
PushSampleEvictNewest(buf, sample) ==
    IF Len(buf) >= max_size
    THEN Append(SubSeq(buf, 1, Len(buf) - 1), sample)
    ELSE Append(buf, sample)

\* The locked section of SampleCapturer::next: evict the oldest when full,
\* then append.
PushSample(buf, sample) ==
    IF Len(buf) >= max_size
    THEN Append(Tail(buf), sample)
    ELSE Append(buf, sample)

\* self.input.next() on the decoder of the queued source: its next sample,
\* or None once it has given them all.
InputNext(queued) ==
    IF queued.pos < TrackLen(queued.track)
    THEN Some(Sample(queued.track, queued.pos + 1))
    ELSE None

\* Mutant of CapturerNext: the sample passed on is the oldest of the buffer.
CapturerNextYieldsOldest(buf, item) ==
    IF IsSome(item)
    THEN [buffer |-> PushSample(buf, Unwrap(item)),
          yielded |-> Some(Head(PushSample(buf, Unwrap(item))))]
    ELSE [buffer |-> buf, yielded |-> None]

\* SampleCapturer::next given what self.input.next() returned: the buffer it
\* leaves and the value it returns.
CapturerNext(buf, item) ==
    IF IsSome(item)
    THEN [buffer |-> PushSample(buf, Unwrap(item)),
          yielded |-> Some(Unwrap(item))]
    ELSE [buffer |-> buf, yielded |-> None]

\* buffer.pop_front() under the capacity test
EvictOldest(buf) == IF Len(buf) >= max_size THEN Tail(buf) ELSE buf

\* Mutant of CanLock: lock() does not wait.
CanLockAlways(owner) == TRUE

\* Mutex::lock returns once no thread owns the mutex.
CanLock(owner) == owner = "free"

\* Mutant of LockAfterSnapshot: the guard lives on in analyze_audio.
LockKeptForTransform == "ui"

\* The owner of the mutex once get_audio_samples has returned: its guard is a
\* local and is dropped at the end of the function.
LockAfterSnapshot == "free"

\* ---------------------------------------------------------------- AudioPlayer

\* Mutant of GetAudioSamples: the iterator is not reversed.
GetAudioSamplesOldestFirst(buf, count) ==
    LET n == IF count < Len(buf) THEN count ELSE Len(buf)
    IN  [i \in 1..n |-> buf[i]]

\* AudioPlayer::get_audio_samples: buffer.iter().rev().take(count).
GetAudioSamples(buf, count) ==
    LET n == IF count < Len(buf) THEN count ELSE Len(buf)
    IN  [i \in 1..n |-> buf[Len(buf) - i + 1]]

\* AudioPlayer::is_playing: a sink exists and its queue is not empty.
EngineIsPlaying(s) == IsSome(s.sink) /\ ~Unwrap(s.sink).ended

\* AudioPlayer::stop
AudioStop(s) == [s EXCEPT !.sink = None]

\* AudioPlayer::play.  ok is whether creating the sink, opening the file and
\* decoding it all succeed; the old sink is stopped and the buffer cleared
\* before any of them is tried.  The source is wrapped in amplify(self.volume)
\* and appended to a sink just created, whose own volume is 1.0.
AudioPlay(s, path, ok) ==
    LET cleared == [s EXCEPT !.sink = None, !.audio_buffer = << >>]
    IN  IF ok
        THEN [cleared EXCEPT
                !.sample_rate = TrackRate(path),
                !.total_duration = TrackDuration(path),
                !.sink = Some([track |-> path, pos |-> 0, ended |-> FALSE,
                               yielded |-> None,
                               amplify |-> s.volume, volume |-> VolumeMax])]
        ELSE cleared

\* Mutant of SetVolume: the value is stored as given.
SetVolumeUnclamped(s, v) ==
    [s EXCEPT !.volume = v,
              !.arg = Some(v),
              !.sink = IF IsSome(s.sink)
                       THEN Some([Unwrap(s.sink) EXCEPT !.volume = v])
                       ELSE s.sink]

\* AudioPlayer::set_volume: clamp, store, and forward to the sink if any.
SetVolume(s, v) ==
    LET clamped == IF v < 0 THEN 0 ELSE IF v > VolumeMax THEN VolumeMax ELSE v
    IN  [s EXCEPT !.volume = clamped,
                  !.arg = Some(v),
                  !.sink = IF IsSome(s.sink)
                           THEN Some([Unwrap(s.sink) EXCEPT !.volume = clamped])
                           ELSE s.sink]

\* AudioPlayer::increase_volume
IncreaseVolume(s) == SetVolume(s, s.volume + VolumeDelta)

\* AudioPlayer::decrease_volume
DecreaseVolume(s) == SetVolume(s, s.volume - VolumeDelta)

\* The gain the output of the queued source goes through, in ten-thousandths:
\* the factor of amplify() times the volume of the sink.
Gain(queued) == queued.amplify * queued.volume

\* ------------------------------------------------------------ App: transport

\* self.items[i]
ItemAt(s, i) == s.items[i + 1]

\* The playable entries with index in lo..hi-1 (every index below items.len()).
PlayableIn(s, lo, hi) == {i \in lo..(hi - 1) : Playable(ItemAt(s, i))}

\* unwrap_or(Duration::from_secs(180)) of play_track_at_index
TotalTimeOf(duration) ==
    IF IsSome(duration) THEN Unwrap(duration) ELSE DefaultDuration

\* Mutant of PlayTrackAtIndex: the elapsed time and the error message of the
\* previous track are kept.
PlayTrackAtIndexKeepsClock(s, index, ok) ==
    IF index < Len(s.items) /\ Playable(ItemAt(s, index))
    THEN LET path == ItemAt(s, index)
             p == [AudioPlay(s, path, ok) EXCEPT
                     !.asked = Some(index),
                     !.engine = IF ok THEN "ok" ELSE "err"]
         IN  IF ok
             THEN [p EXCEPT
                     !.selected_track = Some(path),
                     !.current_track_index = Some(index),
                     !.is_playing = TRUE,
                     !.total_time = TotalTimeOf(p.total_duration),
                     !.playback_start = Some(0)]
             ELSE [p EXCEPT !.error_message = Some("Errore riproduzione")]
    ELSE s

\* App::play_track_at_index
PlayTrackAtIndex(s, index, ok) ==
    IF index < Len(s.items) /\ Playable(ItemAt(s, index))
    THEN LET path == ItemAt(s, index)
             p == [AudioPlay(s, path, ok) EXCEPT
                     !.asked = Some(index),
                     !.engine = IF ok THEN "ok" ELSE "err"]
         IN  IF ok
             THEN [p EXCEPT
                     !.selected_track = Some(path),
                     !.current_track_index = Some(index),
                     !.is_playing = TRUE,
                     !.current_time = 0,
                     !.total_time = TotalTimeOf(p.total_duration),
                     !.playback_start = Some(0),
                     !.error_message = None]
             ELSE [p EXCEPT !.error_message = Some("Errore riproduzione")]
    ELSE s

\* The second loop of play_next_track, for i in 0..current_idx: the first
\* playable entry below current_idx, reading items[i] on the way.
WrapTarget(s, cur) ==
    LET lim == IF cur < Len(s.items) THEN cur ELSE Len(s.items)
        before == PlayableIn(s, 0, lim)
    IN  IF before # {} THEN Some(MinOf(before)) ELSE None

\* App::play_next_track
PlayNextTrack(s, ok) ==
    IF IsSome(s.current_track_index)
    THEN LET cur == Unwrap(s.current_track_index)
             after == PlayableIn(s, cur + 1, Len(s.items))
         IN  IF after # {}
             THEN PlayTrackAtIndex(s, MinOf(after), ok)
             ELSE IF s.continuous_play
                  THEN IF IsSome(WrapTarget(s, cur))
                       THEN PlayTrackAtIndex(s, Unwrap(WrapTarget(s, cur)), ok)
                       ELSE IF cur > Len(s.items)
                            \* items[i] with i = items.len() < current_idx
                            THEN [s EXCEPT !.panicked = TRUE]
                            ELSE [s EXCEPT !.is_playing = FALSE]
                  ELSE [s EXCEPT !.is_playing = FALSE]
    ELSE [s EXCEPT !.is_playing = FALSE]

\* App::play_previous_track: for i in (0..current_idx).rev()
PlayPreviousTrack(s, ok) ==
    IF IsSome(s.current_track_index) /\ Unwrap(s.current_track_index) > 0
    THEN LET cur == Unwrap(s.current_track_index)
         IN  IF cur - 1 >= Len(s.items)
             \* the first entry read is items[current_idx - 1]
             THEN [s EXCEPT !.panicked = TRUE]
             ELSE LET before == PlayableIn(s, 0, cur)
                  IN  IF before # {}
                      THEN PlayTrackAtIndex(s, MaxOf(before), ok)
                      ELSE s
    ELSE s

\* Mutant of ToggleContinuousPlay: the flag is flipped and the transport
\* marked not playing.
ToggleContinuousPlayStops(s) ==
    [s EXCEPT !.continuous_play = ~s.continuous_play, !.is_playing = FALSE]

\* App::toggle_continuous_play
ToggleContinuousPlay(s) == [s EXCEPT !.continuous_play = ~s.continuous_play]

\* Mutant of TogglePlayback: the restart keeps the start instant of the
\* previous playback.
TogglePlaybackKeepsStart(s, ok) ==
    IF IsSome(s.selected_track)
    THEN IF s.is_playing
         THEN [AudioStop(s) EXCEPT !.is_playing = FALSE]
         ELSE [AudioPlay(s, Unwrap(s.selected_track), ok) EXCEPT
                 !.engine = IF ok THEN "ok" ELSE "err",
                 !.is_playing = TRUE]
    ELSE s

\* Mutant of TogglePlayback: the stop branch leaves the engine alone.
TogglePlaybackLeavesEngine(s, ok) ==
    IF IsSome(s.selected_track)
    THEN IF s.is_playing
         THEN [s EXCEPT !.is_playing = FALSE]
         ELSE [AudioPlay(s, Unwrap(s.selected_track), ok) EXCEPT
                 !.engine = IF ok THEN "ok" ELSE "err",
                 !.is_playing = TRUE,
                 !.playback_start = Some(0)]
    ELSE s

\* App::toggle_playback
TogglePlayback(s, ok) ==
    IF IsSome(s.selected_track)
    THEN IF s.is_playing
         THEN [AudioStop(s) EXCEPT !.is_playing = FALSE]
         ELSE [AudioPlay(s, Unwrap(s.selected_track), ok) EXCEPT
                 !.engine = IF ok THEN "ok" ELSE "err",
                 !.is_playing = TRUE,
                 !.playback_start = Some(0)]
    ELSE s

\* ----------------------------------------------------------- App: navigation

\* App::load_directory.  read_ok is whether fs::read_dir succeeds; when it
\* fails the list has already been cleared and the parent marker pushed.
LoadDirectory(s, read_ok) ==
    IF read_ok
    THEN [s EXCEPT !.items = Listing(disk, s.current_dir)]
    ELSE [s EXCEPT
            !.items = IF IsSome(ParentOf(s.current_dir)) THEN <<"..">> ELSE << >>,
            !.io_error = TRUE]

\* Mutant of EnterDirectory: entering a directory stops the engine.
EnterDirectoryStops(s, dir, read_ok) ==
    LET loaded == LoadDirectory([s EXCEPT !.current_dir = dir], read_ok)
    IN  IF loaded.io_error
        THEN loaded
        ELSE [AudioStop(loaded) EXCEPT !.cursor = 0, !.is_playing = FALSE]

\* current_dir = dir; load_directory()?; list_state.select(Some(0))
EnterDirectory(s, dir, read_ok) ==
    LET loaded == LoadDirectory([s EXCEPT !.current_dir = dir], read_ok)
    IN  IF loaded.io_error THEN loaded ELSE [loaded EXCEPT !.cursor = 0]

\* App::select_item
SelectItem(s, ok, read_ok) ==
    IF s.cursor < Len(s.items)
    THEN LET path == ItemAt(s, s.cursor)
         IN  IF FileNameIsDotDot(path)
             THEN IF IsSome(ParentOf(s.current_dir))
                  THEN EnterDirectory(s, Unwrap(ParentOf(s.current_dir)), read_ok)
                  ELSE s
             ELSE IF IsDir(path)
                  THEN EnterDirectory(s, path, read_ok)
                  ELSE PlayTrackAtIndex(s, s.cursor, ok)
    ELSE s

\* App::next.  items.len() - 1 overflows on an empty list: a panic with
\* overflow checks, usize::MAX without (and then i >= usize::MAX is false
\* unless previous() has left the cursor at usize::MAX).
AppNext(s, overflow_checks) ==
    IF Len(s.items) = 0
    THEN IF overflow_checks
         THEN [s EXCEPT !.panicked = TRUE]
         ELSE IF s.cursor >= 2147483647
              THEN [s EXCEPT !.cursor = 0]
              ELSE [s EXCEPT !.cursor = s.cursor + 1]
    ELSE IF s.cursor >= Len(s.items) - 1
         THEN [s EXCEPT !.cursor = 0]
         ELSE [s EXCEPT !.cursor = s.cursor + 1]

\* App::previous.  On an empty list the cursor is 0 (set by App::new and by
\* every directory change), and items.len() - 1 overflows.
AppPrevious(s, overflow_checks) ==
    IF s.cursor = 0
    THEN IF Len(s.items) = 0
         THEN IF overflow_checks
              THEN [s EXCEPT !.panicked = TRUE]
              ELSE [s EXCEPT !.cursor = 2147483647]
         ELSE [s EXCEPT !.cursor = Len(s.items) - 1]
    ELSE [s EXCEPT !.cursor = s.cursor - 1]

\* ------------------------------------------------------- App: the spectrum

RECURSIVE Pow(_, _)
Pow(b, e) == IF e = 0 THEN 1 ELSE b * Pow(b, e - 1)

\* min_freq * (max_freq / min_freq).powf(i / num_bars) for i in 0..num_bars,
\* in Hz, to a resolution of 20 Hz: the largest f with
\* (f / min_freq)^num_bars <= (max_freq / min_freq)^i.
BandEdges ==
    LET lo == min_freq \div 20
        hi == max_freq \div 20
    IN  [i \in 0..num_bars |->
            20 * MaxOf({f \in lo..hi :
                          Pow(f, num_bars) <= Pow(hi, i) * Pow(lo, num_bars - i)})]

\* (freq / freq_per_bin) as usize, freq_per_bin = sample_rate / FFT_SIZE.  A
\* rate of 0 divides by zero: +inf, which the cast saturates.
BinOf(freq, rate) ==
    IF rate = 0 THEN 2147483647 ELSE (freq * FFT_SIZE) \div rate

\* bin_start of bar i
BinStart(i, rate) == BinOf(BandEdges[i], rate)

\* Mutant of BinEnd: the end bin is not clamped to FFT_SIZE / 2.
BinEndUnclamped(i, rate) == BinOf(BandEdges[i + 1], rate)

\* bin_end of bar i: (freq_end / freq_per_bin).min(FFT_SIZE / 2) as usize
BinEnd(i, rate) ==
    LET e == BinOf(BandEdges[i + 1], rate)
    IN  IF e < FFT_SIZE \div 2 THEN e ELSE FFT_SIZE \div 2

\* The bins of the transform output read for bar i: those of
\* bin_start..bin_end that are below buffer.len().
BinsRead(i, rate) ==
    {b \in BinStart(i, rate)..(BinEnd(i, rate) - 1) : b < FFT_SIZE}

\* count of bar i: the bins of bin_start..bin_end that are below buffer.len()
BinCount(i, rate) ==
    Cardinality({b \in BinStart(i, rate)..(BinEnd(i, rate) - 1) : b < FFT_SIZE})

\* magnitude.powf(0.7), in hundredths, tabulated at every tenth.
Pow07(x) == <<0, 20, 32, 43, 53, 62, 70, 78, 86, 93, 100>>[(x \div 10) + 1]

\* v.clamp(lo, hi)
Clamp(v, lo, hi) == IF v < lo THEN lo ELSE IF v > hi THEN hi ELSE v

\* From the mean magnitude of a band to the value that is smoothed in:
\* normalise by the largest band, scale by 0.8, compress, clamp to [0, 1].
Shaped(level, max_magnitude) ==
    LET normalised == IF max_magnitude > 0
                      THEN (level * 100) \div max_magnitude
                      ELSE level * 100
        scaled == (normalised * 8) \div 10
    IN  Clamp(Pow07(scaled), 0, 100)

\* Mutant of Smooth: the final clamp is dropped.
SmoothUnclamped(bar, magnitude) == (bar * 7 + magnitude * 3) \div 10

\* histogram[i] * 0.7 + magnitude * 0.3, then clamp(0.05, 0.95)
Smooth(bar, magnitude) ==
    Clamp((bar * 7 + magnitude * 3) \div 10, BarFloor, BarCeil)

\* Mutant of Decay: the floor is not applied.
DecayUnfloored(bar) == (bar * 9) \div 10

\* *val *= 0.9; if *val < 0.05 { *val = 0.05 }
Decay(bar) ==
    LET d == (bar * 9) \div 10 IN IF d < BarFloor THEN BarFloor ELSE d

Bars == 0..(num_bars - 1)

\* Mutant of AnalyzeAudio: a short snapshot decays the bars.
AnalyzeAudioDecaysWhenShort(s, levels) ==
    LET samples == GetAudioSamples(s.audio_buffer, FFT_SIZE)
        live == {i \in Bars : BinCount(i, s.sample_rate) > 0}
        max_magnitude == IF live = {} THEN 0 ELSE MaxOf({levels[i] : i \in live})
    IN  IF Len(samples) < FFT_SIZE
        THEN [s EXCEPT !.histogram = [b \in 1..num_bars |-> Decay(s.histogram[b])]]
        ELSE [s EXCEPT !.histogram =
                [b \in 1..num_bars |->
                    IF (b - 1) \in live
                    THEN Smooth(s.histogram[b], Shaped(levels[b - 1], max_magnitude))
                    ELSE s.histogram[b]]]

\* Mutant of AnalyzeAudio: a band without bins is smoothed towards 0.
AnalyzeAudioSmoothsEmptyBands(s, levels) ==
    LET samples == GetAudioSamples(s.audio_buffer, FFT_SIZE)
        live == {i \in Bars : BinCount(i, s.sample_rate) > 0}
        max_magnitude == IF live = {} THEN 0 ELSE MaxOf({levels[i] : i \in live})
    IN  IF Len(samples) < FFT_SIZE
        THEN s
        ELSE [s EXCEPT !.histogram =
                [b \in 1..num_bars |->
                    IF (b - 1) \in live
                    THEN Smooth(s.histogram[b], Shaped(levels[b - 1], max_magnitude))
                    ELSE Smooth(s.histogram[b], 0)]]

\* App::analyze_audio.  levels[i] is the mean magnitude the transform of the
\* snapshot shows in the bins of bar i.
AnalyzeAudio(s, levels) ==
    LET samples == GetAudioSamples(s.audio_buffer, FFT_SIZE)
        live == {i \in Bars : BinCount(i, s.sample_rate) > 0}
        max_magnitude == IF live = {} THEN 0 ELSE MaxOf({levels[i] : i \in live})
    IN  IF Len(samples) < FFT_SIZE
        THEN s
        ELSE [s EXCEPT !.histogram =
                [b \in 1..num_bars |->
                    IF (b - 1) \in live
                    THEN Smooth(s.histogram[b], Shaped(levels[b - 1], max_magnitude))
                    ELSE s.histogram[b]]]

\* The branch of update_playback taken while nothing plays.
DecayAll(s) ==
    [s EXCEPT !.histogram = [b \in 1..num_bars |-> Decay(s.histogram[b])]]

\* Mutant of UpdatePlayback: the advance does not test continuous_play.
UpdatePlaybackAlwaysAdvances(s, ok, levels) ==
    LET was_playing == s.is_playing
        polled == [s EXCEPT !.is_playing = EngineIsPlaying(s)]
        advanced == IF was_playing /\ ~polled.is_playing
                    THEN PlayNextTrack(polled, ok)
                    ELSE polled
    IN  IF advanced.panicked
        THEN advanced
        ELSE IF advanced.is_playing /\ IsSome(advanced.playback_start)
             THEN LET elapsed == Unwrap(advanced.playback_start)
                  IN  AnalyzeAudio(
                        [advanced EXCEPT !.current_time =
                            IF elapsed > advanced.total_time
                            THEN advanced.total_time
                            ELSE elapsed],
                        levels)
             ELSE IF ~advanced.is_playing
                  THEN DecayAll(advanced)
                  ELSE advanced

\* App::update_playback.  ok is the engine's answer should the tick start a
\* track, levels what the transform shows should the tick analyse.
UpdatePlayback(s, ok, levels) ==
    LET was_playing == s.is_playing
        polled == [s EXCEPT !.is_playing = EngineIsPlaying(s)]
        advanced == IF was_playing /\ ~polled.is_playing /\ polled.continuous_play
                    THEN PlayNextTrack(polled, ok)
                    ELSE polled
    IN  IF advanced.panicked
        THEN advanced
        ELSE IF advanced.is_playing /\ IsSome(advanced.playback_start)
             THEN LET elapsed == Unwrap(advanced.playback_start)
                  IN  AnalyzeAudio(
                        [advanced EXCEPT !.current_time =
                            IF elapsed > advanced.total_time
                            THEN advanced.total_time
                            ELSE elapsed],
                        levels)
             ELSE IF ~advanced.is_playing
                  THEN DecayAll(advanced)
                  ELSE advanced

\* update_playback up to the call of analyze_audio: the poll of the engine,
\* the advance, the clock, and the decay of the branch that does not analyse.
UpdateBeforeAnalysis(s, ok) ==
    LET was_playing == s.is_playing
        polled == [s EXCEPT !.is_playing = EngineIsPlaying(s)]
        advanced == IF was_playing /\ ~polled.is_playing /\ polled.continuous_play
                    THEN PlayNextTrack(polled, ok)
                    ELSE polled
    IN  IF advanced.panicked
        THEN advanced
        ELSE IF advanced.is_playing /\ IsSome(advanced.playback_start)
             THEN LET elapsed == Unwrap(advanced.playback_start)
                  IN  [advanced EXCEPT !.current_time =
                          IF elapsed > advanced.total_time
                          THEN advanced.total_time
                          ELSE elapsed]
             ELSE IF ~advanced.is_playing
                  THEN DecayAll(advanced)
                  ELSE advanced

\* Whether update_playback goes on to analyze_audio from state s.
Analyses(s) == ~s.panicked /\ s.is_playing /\ IsSome(s.playback_start)

\* analyze_audio from the snapshot it was handed on.
AnalyzeSamples(s, samples, levels) ==
    LET live == {i \in Bars : BinCount(i, s.sample_rate) > 0}
        max_magnitude == IF live = {} THEN 0 ELSE MaxOf({levels[i] : i \in live})
    IN  IF Len(samples) < FFT_SIZE
        THEN s
        ELSE [s EXCEPT !.histogram =
                [b \in 1..num_bars |->
                    IF (b - 1) \in live
                    THEN Smooth(s.histogram[b], Shaped(levels[b - 1], max_magnitude))
                    ELSE s.histogram[b]]]

\* ------------------------------------------------------------------- Init

\* The fields App::new and AudioPlayer::new build, after load_directory of
\* the start directory.
Constructed(d) ==
    /\ disk = d
    /\ current_dir = StartDir(d)
    /\ items = Listing(d, StartDir(d))
    /\ cursor = 0
    /\ selected_track = None
    /\ current_track_index = None
    /\ is_playing = FALSE
    /\ continuous_play = FALSE
    /\ current_time = 0
    /\ total_time = 0
    /\ playback_start = None
    /\ histogram = [b \in 1..num_bars |-> InitialBar]
    /\ error_message = None
    /\ sink = None
    /\ audio_buffer = << >>
    /\ sample_rate = 44100
    /\ total_duration = None
    /\ volume = InitialVolume
    /\ lock = "free"
    /\ tap = None
    /\ snapshot = None
    /\ last = [op |-> "new", ended |-> FALSE, asked |-> None, engine |-> "none",
               from |-> None, paused |-> FALSE, arg |-> None]

\* run_app is entered: main has enabled raw mode and entered the alternate
\* screen, and App::new has returned Ok.
InitOn(d) ==
    /\ Constructed(d)
    /\ pc = "tick"
    /\ terminal = [raw_mode |-> TRUE, alternate_screen |-> TRUE]

\* main is entered: nothing is constructed yet (the fields of App hold the
\* values App::new will give them; nothing reads them before it has run).
InitMain ==
    /\ Constructed("one")
    /\ pc = "main"
    /\ terminal = [raw_mode |-> FALSE, alternate_screen |-> FALSE]

\* The transport and the buffer are followed on the disks whose tracks are
\* silent, the spectrum on the disk whose track has signal.
Init == \E d \in {"tree", "long"} : InitOn(d)

InitSpectrum == InitOn("loud")

\* The volume is followed on the disk with one short track.
InitVolume == InitOn("one")

\* The two threads are followed at the grain of their lock operations on the
\* disk with the long track, and across a change of track on the disk with
\* two tracks.
InitLock == InitOn("long")

\* The loop is followed under its scheduling on the disk with one short
\* track.
InitIdle == InitOn("one")

InitTap == InitOn("pair")

\* The band-to-bin mapping is followed on the disk whose tracks report a
\* sample rate of 0 and a rate below twice max_freq.
InitRates == InitOn("rates")

\* ---------------------------------------------------------------- actions

Running == pc \in {"tick", "input"}

\* A handler of the UI thread ran and left state r: run_app goes on to
\* next_pc unless the handler panicked or returned an Err.  last.paused tells
\* that the last key handled was a toggle_playback that took its stop branch.
Handled(op, ended, r, next_pc) ==
    /\ Becomes(r)
    /\ pc' = IF r.panicked THEN "panicked"
             ELSE IF r.io_error THEN "exited"
             ELSE next_pc
    /\ last' = [op |-> op, ended |-> ended, asked |-> r.asked,
                engine |-> r.engine, from |-> current_track_index,
                arg |-> r.arg,
                paused |-> IF op = "tick"
                           THEN last.paused
                           ELSE op = "toggle" /\ IsSome(selected_track)
                                              /\ is_playing]
    /\ disk' = disk
    /\ UNCHANGED <<lock, tap, snapshot, terminal>>

\* What a transform of the captured samples can show in a band.
LevelsOf(buf) == UNION {TrackLevels(buf[i][1]) : i \in 1..Len(buf)}

\* The band magnitudes a tick may meet: one per bar that has bins, and only
\* when the tick can analyse at all (a full window is captured).
LevelChoices ==
    IF Len(audio_buffer) < FFT_SIZE
    THEN {[i \in Bars |-> 0]}
    ELSE {lv \in [Bars -> LevelsOf(audio_buffer)] :
            \A i \in Bars : BinCount(i, sample_rate) = 0 => lv[i] = 0}

\* The engine's answers a tick may meet: it is asked only on an advance.
TickAnswers ==
    IF is_playing /\ ~EngineIsPlaying(St) /\ continuous_play
    THEN BOOLEAN
    ELSE {TRUE}

\* run_app: app.update_playback() (and the draw, which changes nothing)
Tick ==
    /\ pc = "tick"
    /\ \E ok \in TickAnswers, levels \in LevelChoices :
          Handled("tick", is_playing /\ ~EngineIsPlaying(St),
                  UpdatePlayback(St, ok, levels), "input")

\* event::poll times out, or the key is none of the bound ones
NoKey ==
    /\ pc = "input"
    /\ pc' = "tick"
    /\ UNCHANGED <<terminal, disk, current_dir, items, cursor, selected_track,
                   current_track_index, is_playing, continuous_play,
                   current_time, total_time, playback_start, histogram,
                   error_message, sink, audio_buffer, sample_rate,
                   total_duration, volume, lock, tap, snapshot, last>>

\* KeyCode::Char('q')
KeyQuit ==
    /\ pc = "input"
    /\ pc' = "exited"
    /\ UNCHANGED <<terminal, disk, current_dir, items, cursor, selected_track,
                   current_track_index, is_playing, continuous_play,
                   current_time, total_time, playback_start, histogram,
                   error_message, sink, audio_buffer, sample_rate,
                   total_duration, volume, lock, tap, snapshot, last>>

\* KeyCode::Down | KeyCode::Char('j')
KeyDown ==
    /\ pc = "input"
    /\ Len(items) = 0 => (cursor < MaxOverrun \/ cursor = 2147483647)
    /\ \E overflow_checks \in BOOLEAN :
          Handled("down", FALSE, AppNext(St, overflow_checks), "tick")

\* KeyCode::Up | KeyCode::Char('k')
KeyUp ==
    /\ pc = "input"
    /\ Len(items) = 0 => cursor <= MaxOverrun
    /\ \E overflow_checks \in BOOLEAN :
          Handled("up", FALSE, AppPrevious(St, overflow_checks), "tick")

\* KeyCode::Enter
KeyEnter ==
    /\ pc = "input"
    /\ \E ok \in BOOLEAN, read_ok \in BOOLEAN :
          Handled("select", FALSE, SelectItem(St, ok, read_ok), "tick")

\* KeyCode::Char(' ')
KeySpace ==
    /\ pc = "input"
    /\ \E ok \in BOOLEAN : Handled("toggle", FALSE, TogglePlayback(St, ok), "tick")

\* KeyCode::Char('n')
KeyNext ==
    /\ pc = "input"
    /\ \E ok \in BOOLEAN : Handled("next", FALSE, PlayNextTrack(St, ok), "tick")

\* KeyCode::Char('p')
KeyPrevious ==
    /\ pc = "input"
    /\ \E ok \in BOOLEAN :
          Handled("previous", FALSE, PlayPreviousTrack(St, ok), "tick")

\* KeyCode::Char('c')
KeyContinuous ==
    /\ pc = "input"
    /\ Handled("continuous", FALSE, ToggleContinuousPlay(St), "tick")

\* KeyCode::Char('+') | KeyCode::Char('=')
KeyPlus ==
    /\ pc = "input"
    /\ Handled("plus", FALSE, IncreaseVolume(St), "tick")

\* KeyCode::Char('-') | KeyCode::Char('_')
KeyMinus ==
    /\ pc = "input"
    /\ Handled("minus", FALSE, DecreaseVolume(St), "tick")

\* Arguments set_volume is called with: below, inside and above [0, 1], on
\* and off the grid of the 0.05 steps.
VolumeInputs == {0 - 20, 0, 2, 50, 98, 100, 150}

\* AudioPlayer::set_volume called with an argument of its caller's choice.
CallSetVolume ==
    /\ pc = "input"
    /\ \E v \in VolumeInputs :
          Handled("set", FALSE, SetVolume(St, v), "tick")

\* SampleCapturer::next, called by the audio thread on the source queued in
\* the sink: a sample of the input is recorded and passed on, or the input
\* has ended; the sink's queue ends when the tap returns None.
PullSample ==
    /\ Running
    /\ IsSome(sink)
    /\ ~Unwrap(sink).ended
    /\ LET cur == Unwrap(sink)
           item == InputNext(cur)
           r == CapturerNext(audio_buffer, item)
       IN  /\ audio_buffer' = r.buffer
           /\ sink' = Some([cur EXCEPT
                              !.pos = IF IsSome(item) THEN cur.pos + 1 ELSE cur.pos,
                              !.yielded = r.yielded,
                              !.ended = ~IsSome(r.yielded)])
    /\ UNCHANGED <<terminal, disk, current_dir, items, cursor, selected_track,
                   current_track_index, is_playing, continuous_play,
                   current_time, total_time, playback_start, histogram,
                   error_message, sample_rate, total_duration, volume, lock,
                   tap, snapshot, pc, last>>

\* The wall clock: playback_start.elapsed() grows.
Elapse ==
    /\ Running
    /\ IsSome(playback_start)
    /\ Unwrap(playback_start) < MaxElapsed
    /\ playback_start' = Some(Unwrap(playback_start) + 1)
    /\ UNCHANGED <<terminal, disk, current_dir, items, cursor, selected_track,
                   current_track_index, is_playing, continuous_play,
                   current_time, total_time, histogram, error_message, sink,
                   audio_buffer, sample_rate, total_duration, volume, lock,
                   tap, snapshot, pc, last>>

Next ==
    \/ Tick
    \/ NoKey
    \/ KeyQuit
    \/ KeyDown
    \/ KeyUp
    \/ KeyEnter
    \/ KeySpace
    \/ KeyNext
    \/ KeyPrevious
    \/ KeyContinuous
    \/ PullSample
    \/ Elapse

Spec == Init /\ [][Next]_vars

SpecRates == InitRates /\ [][Next]_vars

\* The cursor is followed through the directories of the "tree" disk and in
\* the empty root.
InitCursor == \E d \in {"tree", "empty"} : InitOn(d)

SpecCursor == InitCursor /\ [][Next]_vars

SpecSpectrum == InitSpectrum /\ [][Next]_vars

\* run_app: event::poll returns, with a key or after its 50 ms.
Poll ==
    \/ NoKey
    \/ KeyQuit
    \/ KeyDown
    \/ KeyUp
    \/ KeyEnter
    \/ KeySpace
    \/ KeyNext
    \/ KeyPrevious
    \/ KeyContinuous

\* The loop of run_app neither waits in update_playback nor, beyond its 50 ms,
\* in event::poll.
SpecIdle == InitIdle /\ [][Next]_vars /\ WF_vars(Tick) /\ WF_vars(Poll)

\* ------------------------------------- the two threads, lock by lock
\* In Spec a tick and a pull of the audio thread are one step each, as the
\* mutex makes their accesses to the buffer.  Here they are taken apart at
\* every lock operation, and the copy of get_audio_samples element by
\* element.

\* SampleCapturer::next, self.input.next(): a sample is taken from the input
\* of the source queued in the sink, or the input has ended.  yielded is
\* the value the call goes on to return: nothing after the read changes it.
TapRead ==
    /\ pc \notin {"exited", "panicked"}
    /\ tap = None
    /\ IsSome(sink)
    /\ ~Unwrap(sink).ended
    /\ LET cur == Unwrap(sink)
       IN  IF cur.pos < TrackLen(cur.track)
           THEN /\ tap' = Some([sample |-> Unwrap(InputNext(cur)),
                                at |-> "read"])
                /\ sink' = Some([cur EXCEPT !.pos = cur.pos + 1,
                                            !.yielded = InputNext(cur)])
           ELSE /\ tap' = tap
                /\ sink' = Some([cur EXCEPT !.ended = TRUE,
                                            !.yielded = None])
    /\ UNCHANGED <<terminal, disk, current_dir, items, cursor, selected_track,
                   current_track_index, is_playing, continuous_play,
                   current_time, total_time, playback_start, histogram,
                   error_message, audio_buffer, sample_rate, total_duration,
                   volume, lock, snapshot, pc, last>>

\* What the steps of the audio thread after the read leave alone.
TapFrame ==
    UNCHANGED <<terminal, disk, current_dir, items, cursor, selected_track,
                current_track_index, is_playing, continuous_play,
                current_time, total_time, playback_start, histogram,
                error_message, sink, sample_rate, total_duration, volume,
                snapshot, pc, last>>

\* SampleCapturer::next, self.buffer.lock().unwrap()
TapLock ==
    /\ IsSome(tap)
    /\ Unwrap(tap).at = "read"
    /\ CanLock(lock)
    /\ lock' = "audio"
    /\ tap' = Some([Unwrap(tap) EXCEPT !.at = "locked"])
    /\ audio_buffer' = audio_buffer
    /\ TapFrame

\* SampleCapturer::next, if buffer.len() >= self.max_size { pop_front }
TapEvict ==
    /\ IsSome(tap)
    /\ Unwrap(tap).at = "locked"
    /\ audio_buffer' = EvictOldest(audio_buffer)
    /\ tap' = Some([Unwrap(tap) EXCEPT !.at = "evicted"])
    /\ lock' = lock
    /\ TapFrame

\* SampleCapturer::next, buffer.push_back(sample); the guard is dropped at
\* the end of the block.
TapAppend ==
    /\ IsSome(tap)
    /\ Unwrap(tap).at = "evicted"
    /\ audio_buffer' = Append(audio_buffer, Unwrap(tap).sample)
    /\ tap' = None
    /\ lock' = "free"
    /\ TapFrame

\* run_app: update_playback up to the call of analyze_audio.  A tick that
\* advances reaches the clear of play(), which waits for the mutex.
TickTransport ==
    /\ pc = "tick"
    /\ (is_playing /\ ~EngineIsPlaying(St) /\ continuous_play) => CanLock(lock)
    /\ \E ok \in TickAnswers :
          LET r == UpdateBeforeAnalysis(St, ok)
          IN  Handled("tick", is_playing /\ ~EngineIsPlaying(St), r,
                      IF Analyses(r) THEN "snapshot" ELSE "input")

\* What the steps of get_audio_samples leave alone.
SnapshotFrame ==
    UNCHANGED <<terminal, disk, current_dir, items, cursor, selected_track,
                current_track_index, is_playing, continuous_play,
                current_time, total_time, playback_start, histogram,
                error_message, sink, audio_buffer, sample_rate,
                total_duration, volume, tap, last>>

\* get_audio_samples: self.audio_buffer.lock().unwrap()
SnapshotLock ==
    /\ pc = "snapshot"
    /\ CanLock(lock)
    /\ lock' = "ui"
    /\ snapshot' = Some(<< >>)
    /\ pc' = "copying"
    /\ SnapshotFrame

\* get_audio_samples: one element of buffer.iter().rev().take(count)
SnapshotCopy ==
    /\ pc = "copying"
    /\ LET k == Len(Unwrap(snapshot))
       IN  /\ k < FFT_SIZE
           /\ k < Len(audio_buffer)
           /\ snapshot' = Some(Append(Unwrap(snapshot),
                                      audio_buffer[Len(audio_buffer) - k]))
    /\ lock' = lock
    /\ pc' = pc
    /\ SnapshotFrame

\* get_audio_samples: the iterator is done, collect() returns the Vec and the
\* function returns.
SnapshotReturn ==
    /\ pc = "copying"
    /\ LET k == Len(Unwrap(snapshot))
       IN  k >= FFT_SIZE \/ k >= Len(audio_buffer)
    /\ lock' = LockAfterSnapshot
    /\ snapshot' = snapshot
    /\ pc' = "transform"
    /\ SnapshotFrame

\* The band magnitudes the transform of the snapshot may show.
SnapshotLevelChoices ==
    IF Len(Unwrap(snapshot)) < FFT_SIZE
    THEN {[i \in Bars |-> 0]}
    ELSE {lv \in [Bars -> LevelsOf(Unwrap(snapshot))] :
            \A i \in Bars : BinCount(i, sample_rate) = 0 => lv[i] = 0}

\* analyze_audio after get_audio_samples: the length test, the window, the
\* transform and the bands; any guard its scope still holds is dropped at
\* its end.
Transform ==
    /\ pc = "transform"
    /\ \E levels \in SnapshotLevelChoices :
          histogram' = AnalyzeSamples(St, Unwrap(snapshot), levels).histogram
    /\ snapshot' = None
    /\ lock' = IF lock = "ui" THEN "free" ELSE lock
    /\ pc' = "input"
    /\ UNCHANGED <<terminal, disk, current_dir, items, cursor, selected_track,
                   current_track_index, is_playing, continuous_play,
                   current_time, total_time, playback_start, error_message,
                   sink, audio_buffer, sample_rate, total_duration, volume,
                   tap, last>>

\* The handlers that reach the engine; play() waits for the mutex to clear
\* the buffer.
LockEnter == CanLock(lock) /\ KeyEnter

LockSpace == CanLock(lock) /\ KeySpace

LockNext == CanLock(lock) /\ KeyNext

LockPrevious == CanLock(lock) /\ KeyPrevious

NextLock ==
    \/ TickTransport
    \/ SnapshotLock
    \/ SnapshotCopy
    \/ SnapshotReturn
    \/ Transform
    \/ NoKey
    \/ LockEnter
    \/ LockSpace
    \/ LockNext
    \/ LockPrevious
    \/ TapRead
    \/ TapLock
    \/ TapEvict
    \/ TapAppend

SpecLock == InitLock /\ [][NextLock]_vars

SpecTap == InitTap /\ [][NextLock]_vars

\* Every handler of run_app, the volume keys included.  (Spec and
\* SpecSpectrum leave the volume keys out: they read and write the volume and
\* the sink's volume, which no other handler reads.)
NextVolume ==
    \/ Next
    \/ KeyPlus
    \/ KeyMinus

SpecVolume == InitVolume /\ [][NextVolume]_vars

\* The volume interface of AudioPlayer on its own, before any track is
\* played: set_volume with arguments of the caller's choice, and the two keys.
NextSetVolume ==
    \/ Tick
    \/ NoKey
    \/ KeyPlus
    \/ KeyMinus
    \/ CallSetVolume

SpecSetVolume == InitVolume /\ [][NextSetVolume]_vars

\* -------------------------------------------------------------------- main

\* A step of main outside run_app: only pc and the terminal change.
MainStep(next_pc, term) ==
    /\ pc' = next_pc
    /\ terminal' = term
    /\ UNCHANGED <<disk, current_dir, items, cursor, selected_track,
                   current_track_index, is_playing, continuous_play,
                   current_time, total_time, playback_start, histogram,
                   error_message, sink, audio_buffer, sample_rate,
                   total_duration, volume, lock, tap, snapshot, last>>

\* enable_raw_mode()?
EnableRawMode ==
    /\ pc = "main"
    /\ \E ok \in BOOLEAN :
          IF ok
          THEN MainStep("raw", [terminal EXCEPT !.raw_mode = TRUE])
          ELSE MainStep("not_started", terminal)

\* execute!(stdout, EnterAlternateScreen, EnableMouseCapture)?
EnterAlternateScreen ==
    /\ pc = "raw"
    /\ \E ok \in BOOLEAN :
          IF ok
          THEN MainStep("screen", [terminal EXCEPT !.alternate_screen = TRUE])
          ELSE MainStep("not_started", terminal)

\* Terminal::new(backend)?
TerminalNew ==
    /\ pc = "screen"
    /\ \E ok \in BOOLEAN :
          MainStep(IF ok THEN "construct" ELSE "startup_failed", terminal)

\* let mut app = App::new()?: current_dir(), AudioPlayer::new() (the output
\* stream) or load_directory() may fail, and the ? returns from main.
AppNew ==
    /\ pc = "construct"
    /\ \E ok \in BOOLEAN :
          MainStep(IF ok THEN "tick" ELSE "startup_failed", terminal)

\* After run_app has returned, Ok or Err: disable_raw_mode()?, execute!(...
\* LeaveAlternateScreen, DisableMouseCapture)?, show_cursor()?, and the
\* error of run_app is printed.
RestoreTerminal ==
    /\ pc = "exited"
    /\ \E disabled \in BOOLEAN, left \in BOOLEAN :
          IF ~disabled
          THEN MainStep("restore_failed", terminal)
          ELSE IF ~left
               THEN MainStep("restore_failed",
                             [terminal EXCEPT !.raw_mode = FALSE])
               ELSE MainStep("returned",
                             [raw_mode |-> FALSE, alternate_screen |-> FALSE])

NextMain ==
    \/ EnableRawMode
    \/ EnterAlternateScreen
    \/ TerminalNew
    \/ AppNew
    \/ Next
    \/ RestoreTerminal

SpecMain == InitMain /\ [][NextMain]_vars

\* ------------------------------------------------------------------ claims

\* A step of the UI thread in which a handler ran: update_playback from
\* "tick", a key handler from "input" (a time-out and quit run none and leave
\* last, which a tick set, as it is).
TickStep == pc = "tick" /\ pc' # "tick"

KeyStep(op) == pc = "input" /\ pc' # "input" /\ last'.op = op

HandlerStep == TickStep \/ (pc = "input" /\ pc' # "input" /\ last'.op # "tick")

\* The tick observes the end of the track: the transport was Playing and the
\* engine's queue is empty.
EndOfTrack == is_playing /\ ~EngineIsPlaying(St)

\* The playable entries of the current list after / before index cur.
PlayableAfter(cur) == {i \in (cur + 1)..(Len(items) - 1) : Playable(items[i + 1])}

PlayableBefore(cur) ==
    {i \in 0..(cur - 1) : i < Len(items) /\ Playable(items[i + 1])}

AllPlayable == {i \in 0..(Len(items) - 1) : Playable(items[i + 1])}

\* The engine plays track path from its start in the primed state.
StartedAnew(path) ==
    /\ IsSome(sink')
    /\ Unwrap(sink').track = path
    /\ Unwrap(sink').pos = 0

\* C1: in every reachable state the shared sample buffer holds at most
\* max_size samples (8192 in the source).
C1_BufferBounded == Len(audio_buffer) <= max_size

\* C1 witness: the buffer is full and its oldest sample has been evicted.
C1_Witness ==
    /\ Len(audio_buffer) = max_size
    /\ audio_buffer[1][2] > 1

\* C2: after N pushes since the clear of play(), the buffer holds exactly
\* min(N, max_size) samples: the last ones pushed, in push order.
C2_LastPushedInOrder ==
    IsSome(sink) =>
        LET cur == Unwrap(sink)
            n == IF cur.pos < max_size THEN cur.pos ELSE max_size
        IN  audio_buffer = [i \in 1..n |-> Sample(cur.track, cur.pos - n + i)]

\* C2 witness: more samples were pushed than the buffer holds.
C2_Witness ==
    /\ IsSome(sink)
    /\ Unwrap(sink).pos > max_size
    /\ Len(audio_buffer) = max_size

\* C3: every bar of the spectrum frame is within [0.05, 0.95] in every
\* reachable state.
C3_BarsInRange ==
    \A b \in 1..num_bars : BarFloor <= histogram[b] /\ histogram[b] <= BarCeil

\* C3 witness: analysis ticks on a full window have raised a bar above its
\* initial value.
C3_Witness ==
    /\ last.op = "tick"
    /\ is_playing
    /\ Len(audio_buffer) >= FFT_SIZE
    /\ \E b \in 1..num_bars : histogram[b] > InitialBar

\* C4: when a handler's play_track_at_index(index) succeeds in the engine,
\* the transport is Playing with elapsed time 0, total time the engine's
\* duration (180 s when it reports none), a start instant just recorded,
\* current index = index, selected track = that entry, no error message.
C4_SelectSuccess ==
    [][(HandlerStep /\ IsSome(last'.asked) /\ last'.engine = "ok")
       => LET index == Unwrap(last'.asked)
              path == items[index + 1]
          IN  /\ is_playing'
              /\ current_time' = 0
              /\ total_time' = IF IsSome(TrackDuration(path))
                               THEN Unwrap(TrackDuration(path))
                               ELSE DefaultDuration
              /\ playback_start' = Some(0)
              /\ current_track_index' = Some(index)
              /\ selected_track' = Some(path)
              /\ error_message' = None
              /\ StartedAnew(path)]_vars

\* C4 witness: a selection has just succeeded on a track whose duration the
\* engine does not report.
C4_Witness ==
    /\ last.op = "select"
    /\ last.engine = "ok"
    /\ is_playing
    /\ total_time = DefaultDuration
    /\ pc = "tick"

\* C5: when selecting a playable file fails while another track is playing,
\* the prior playback state is preserved: the engine keeps playing the
\* previous track, the transport state, selected track, current index and
\* elapsed/total time are unchanged, and only the error message is recorded.
C5_FailurePreservesPlayback ==
    [][(pc = "input" /\ pc' # "input"
          /\ last'.op \in {"select", "next", "previous"}
          /\ IsSome(last'.asked) /\ last'.engine = "err"
          /\ last'.asked # current_track_index
          /\ is_playing /\ EngineIsPlaying(St))
       => /\ sink' = sink
          /\ is_playing' = is_playing
          /\ selected_track' = selected_track
          /\ current_track_index' = current_track_index
          /\ current_time' = current_time
          /\ total_time' = total_time
          /\ IsSome(error_message')]_vars

\* C6: with continuous_play enabled, a tick that observes the end of the
\* current track starts the nearest playable entry after the current index,
\* and when none follows it wraps and starts the first playable entry of the
\* list.
C6_AdvanceWrapsToFirstPlayable ==
    [][(TickStep /\ EndOfTrack /\ continuous_play
          /\ IsSome(current_track_index) /\ AllPlayable # {})
       => LET cur == Unwrap(current_track_index)
              target == IF PlayableAfter(cur) # {}
                        THEN MinOf(PlayableAfter(cur))
                        ELSE MinOf(AllPlayable)
          IN  /\ last'.asked = Some(target)
              /\ last'.engine = "ok" =>
                    /\ is_playing'
                    /\ current_track_index' = Some(target)
                    /\ StartedAnew(items[target + 1])]_vars

\* C7: with continuous_play disabled, a tick that observes the end of the
\* current track leaves the transport not playing, starts no other track, and
\* leaves current_track_index and the selected track unchanged.
C7_EndWithoutContinuous ==
    [][(TickStep /\ EndOfTrack /\ ~continuous_play)
       => /\ ~is_playing'
          /\ last'.engine = "none"
          /\ sink' = sink
          /\ current_track_index' = current_track_index
          /\ selected_track' = selected_track]_vars

\* C7 witness: a tick has just observed the end of a track with
\* continuous_play off and left the transport not playing on that track.
C7_Witness ==
    /\ pc = "input"
    /\ last.op = "tick"
    /\ last.ended
    /\ ~continuous_play
    /\ ~is_playing
    /\ IsSome(current_track_index)

\* C8: whenever a playable entry exists at an index greater than the current
\* track index, next() selects the nearest such entry, regardless of
\* continuous_play; whenever one exists at a smaller index, previous()
\* selects the nearest such entry.
C8_NextPreviousSelectNearest ==
    [][/\ (KeyStep("next") /\ IsSome(current_track_index)
             /\ PlayableAfter(Unwrap(current_track_index)) # {})
          => last'.asked = Some(MinOf(PlayableAfter(Unwrap(current_track_index))))
       /\ (KeyStep("previous") /\ IsSome(current_track_index)
             /\ PlayableBefore(Unwrap(current_track_index)) # {})
          => last'.asked = Some(MaxOf(PlayableBefore(Unwrap(current_track_index))))
      ]_vars

\* C9: next() wraps only if continuous_play is enabled; when it is disabled
\* and no playable entry follows the current index, next() leaves the
\* transport Stopped: nothing is started, the engine is no longer playing the
\* track and the transport is not playing.
C9_NextOffTheEndStops ==
    [][(KeyStep("next") /\ ~continuous_play /\ IsSome(current_track_index)
          /\ PlayableAfter(Unwrap(current_track_index)) = {})
       => /\ last'.asked = None
          /\ ~is_playing'
          /\ ~(IsSome(sink') /\ ~Unwrap(sink').ended)]_vars

\* C10: previous() never wraps: when no playable entry exists at an index
\* smaller than the current track index (or no track was ever selected),
\* previous() leaves the transport state, the playing track, the current
\* index and the engine unchanged, and the program goes on.
C10_PreviousNeverWraps ==
    [][(KeyStep("previous")
          /\ (current_track_index = None
                \/ PlayableBefore(Unwrap(current_track_index)) = {}))
       => /\ pc' = "tick"
          /\ last'.asked = None
          /\ UNCHANGED <<is_playing, selected_track, current_track_index,
                         current_time, total_time, playback_start, sink,
                         audio_buffer, error_message>>]_vars

\* C11: toggle() while not playing with a previously selected track restarts
\* that track from its beginning: the engine is given the selected track anew
\* (and, accepting it, plays it from its first sample into a cleared buffer),
\* the start instant is re-recorded, and the selected track and the current
\* index are unchanged; toggle() with no selected track changes nothing.
C11_ToggleRestarts ==
    [][KeyStep("toggle")
       => /\ (IsSome(selected_track) /\ ~is_playing)
             => /\ last'.engine # "none"
                /\ last'.engine = "ok"
                      => /\ StartedAnew(Unwrap(selected_track))
                         /\ audio_buffer' = << >>
                         /\ is_playing'
                /\ playback_start' = Some(0)
                /\ selected_track' = selected_track
                /\ current_track_index' = current_track_index
          /\ selected_track = None
             => /\ last'.engine = "none"
                /\ pc' = "tick"
                /\ UNCHANGED <<current_dir, items, cursor, selected_track,
                               current_track_index, is_playing,
                               continuous_play, current_time, total_time,
                               playback_start, histogram, error_message, sink,
                               audio_buffer, sample_rate, total_duration>>
      ]_vars

\* C11 witness: a toggle has just restarted a track that had been played for
\* some time and then left not playing.
C11_Witness ==
    /\ pc = "tick"
    /\ last.op = "toggle"
    /\ last.engine = "ok"
    /\ is_playing
    /\ current_time > 0
    /\ playback_start = Some(0)
    /\ IsSome(sink)
    /\ Unwrap(sink).track = Unwrap(selected_track)
    /\ Unwrap(sink).pos = 0

\* C12: toggle() while Playing stops the engine's output and sets the
\* transport to not playing, and from then until a command is issued the
\* transport stays not playing with the engine silent: no tick treats the
\* pause as the end of the track or starts a track, whatever continuous_play.
C12_PauseHolds ==
    last.paused
    => /\ ~is_playing
       /\ sink = None
       /\ last.engine = "none"
       /\ last.op = "tick" => ~last.ended

\* C12 witness: a tick has run after a pause with continuous_play enabled.
C12_Witness ==
    /\ last.paused
    /\ last.op = "tick"
    /\ pc = "input"
    /\ continuous_play
    /\ IsSome(selected_track)

\* C19: get_audio_samples(count) returns exactly min(count, buffer length)
\* samples, never more than count nor than the buffer holds: the most
\* recently pushed samples since the last clear, newest first; and the read
\* leaves the buffer as it is (a tick that starts no track does not change
\* the buffer).
C19_SnapshotNewestFirst ==
    [][/\ \A count \in 0..(max_size + 1) :
            LET r == GetAudioSamples(audio_buffer, count)
            IN  /\ Len(r) <= count
                /\ Len(r) <= Len(audio_buffer)
                /\ Len(r) = count \/ Len(r) = Len(audio_buffer)
                /\ IsSome(sink)
                      => \A i \in 1..Len(r) :
                            r[i] = Sample(Unwrap(sink).track,
                                          Unwrap(sink).pos - i + 1)
       /\ (TickStep /\ last'.engine = "none") => audio_buffer' = audio_buffer
      ]_vars

\* C19 witness: a playing tick has read its snapshot from a full buffer whose
\* oldest samples had been evicted.
C19_Witness ==
    /\ pc = "input"
    /\ last.op = "tick"
    /\ is_playing
    /\ IsSome(sink)
    /\ Unwrap(sink).pos > max_size
    /\ Len(audio_buffer) = max_size

\* C20: on a playing tick where fewer than FFT_SIZE (2048 in the source)
\* samples have been captured since the last clear, every bar of the
\* histogram is left unchanged.
C20_ShortSnapshotKeepsBars ==
    [][(TickStep /\ is_playing' /\ IsSome(playback_start')
          /\ Len(audio_buffer') < FFT_SIZE)
       => histogram' = histogram]_vars

\* C20 witness: a playing tick has met fewer than FFT_SIZE samples with bars
\* that idle ticks had decayed before, and the bars are still off their
\* floor and off their initial value.
C20_Witness ==
    /\ pc = "input"
    /\ last.op = "tick"
    /\ is_playing
    /\ IsSome(playback_start)
    /\ Len(audio_buffer) < FFT_SIZE
    /\ \A b \in 1..num_bars : BarFloor < histogram[b] /\ histogram[b] < InitialBar

\* C13: the volume is within [0.0, 1.0] in every reachable state, after any
\* sequence of volume commands interleaved with any other commands.
C13_VolumeInRange == 0 <= volume /\ volume <= VolumeMax

\* C13 witness: an increase was issued at full volume while a track was
\* queued, and the volume is still 1.0.
C13_Witness ==
    /\ last.op = "plus"
    /\ pc = "tick"
    /\ volume = VolumeMax
    /\ IsSome(sink)
    /\ Unwrap(sink).amplify = VolumeMax

\* C14: set(v) stores clamp(v, 0, 1); increase() stores min(volume + 0.05, 1)
\* and decrease() stores max(volume - 0.05, 0): set(1.5) gives 1.0, set(-0.2)
\* gives 0.0, increase() from 0.98 gives 1.0.
C14_VolumeArithmetic ==
    [][/\ KeyStep("set")
          => LET v == Unwrap(last'.arg)
             IN  /\ (0 <= v /\ v <= 100) => volume' = v
                 /\ v < 0 => volume' = 0
                 /\ v > 100 => volume' = 100
                 /\ v = 150 => volume' = 100
                 /\ v = 0 - 20 => volume' = 0
       /\ KeyStep("plus")
          => /\ volume' = (IF volume + 5 < 100 THEN volume + 5 ELSE 100)
             /\ volume = 98 => volume' = 100
       /\ KeyStep("minus")
          => volume' = (IF volume - 5 > 0 THEN volume - 5 ELSE 0)
      ]_vars

\* C14 witness: increase() has just been applied to a volume of 0.98 (it
\* called set_volume with 1.03), and the volume is 1.0.
C14_Witness ==
    /\ last.op = "plus"
    /\ pc = "tick"
    /\ last.arg = Some(103)
    /\ volume = 100

\* C15: whenever a track is active, the gain applied to its output (the
\* amplification fixed at track start combined with the sink volume) equals
\* the player's current volume.
C15_GainIsVolume ==
    (IsSome(sink) /\ ~Unwrap(sink).ended)
    => Gain(Unwrap(sink)) = volume * 100

\* The audio thread is inside the locked section of SampleCapturer::next.
TapInCriticalSection == IsSome(tap) /\ Unwrap(tap).at \in {"locked", "evicted"}

\* C16: clearing the buffer on track change prevents cross-track
\* contamination: once play() of a new track has returned, under any
\* interleaving with the audio thread (the tap of the previous track
\* included), every snapshot the analyzer takes holds only samples of the new
\* track.
C16_SnapshotOfCurrentTrack ==
    (pc = "transform" /\ IsSome(sink))
    => \A i \in 1..Len(Unwrap(snapshot)) :
          Unwrap(snapshot)[i][1] = Unwrap(sink).track

\* C17: the analysis side holds the buffer lock only while copying the
\* snapshot and has released it before the window, the transform and the
\* bands run, so that a push of the producer can take the lock at any time
\* during them; the producer holds the lock only for one evict-and-append.
C17_LockOnlyAroundBuffer ==
    /\ lock = "ui" => pc = "copying"
    /\ pc = "transform" => lock # "ui"
    /\ (pc = "transform" /\ IsSome(tap) /\ Unwrap(tap).at = "read"
          /\ lock # "audio") => ENABLED TapLock
    /\ lock = "audio" <=> TapInCriticalSection

\* C17 witness: the producer holds the lock, in the middle of a push, while
\* the analysis side is between its snapshot and the end of the transform.
C17_Witness ==
    /\ pc = "transform"
    /\ Len(Unwrap(snapshot)) = FFT_SIZE
    /\ lock = "audio"
    /\ TapInCriticalSection

\* C18: under any interleaving of producer pushes with a consumer snapshot
\* the snapshot is atomic: while it is copied no push is in progress and
\* what has been copied is the newest end of the buffer, and the finished
\* snapshot is the contiguous run of min(FFT_SIZE, buffer length) samples
\* that ends at the most recently pushed one, newest first.
C18_SnapshotAtomic ==
    [][/\ pc = "copying"
          => /\ ~TapInCriticalSection
             /\ \A i \in 1..Len(Unwrap(snapshot)) :
                   /\ i <= Len(audio_buffer)
                   /\ Unwrap(snapshot)[i] = audio_buffer[Len(audio_buffer) - i + 1]
       /\ (pc = "copying" /\ pc' = "transform")
          => /\ Len(Unwrap(snapshot')) =
                   (IF FFT_SIZE < Len(audio_buffer)
                    THEN FFT_SIZE ELSE Len(audio_buffer))
             /\ \A i \in 1..Len(Unwrap(snapshot')) :
                   Unwrap(snapshot')[i] = audio_buffer[Len(audio_buffer) - i + 1]
      ]_vars

\* C18 witness: a full snapshot was taken from a buffer that had evicted
\* samples, while the producer had a sample in flight waiting for the lock.
C18_Witness ==
    /\ pc = "transform"
    /\ Len(Unwrap(snapshot)) = FFT_SIZE
    /\ Unwrap(snapshot)[1][2] > max_size
    /\ IsSome(tap)
    /\ Unwrap(tap).at = "read"

\* C21: while playback is not active each tick replaces every bar b by
\* max(b * 0.9, 0.05) (a bar at 0.9 is at most 0.81 and at least 0.05 after
\* one tick), and if playback stays inactive while the loop runs every bar
\* eventually reaches 0.05 and stays there.
C21_IdleDecay ==
    /\ [][(TickStep /\ ~is_playing' /\ pc' = "input")
          => \A b \in 1..num_bars :
                /\ histogram'[b] =
                      (IF (histogram[b] * 9) \div 10 > BarFloor
                       THEN (histogram[b] * 9) \div 10 ELSE BarFloor)
                /\ histogram'[b] = Decay(histogram[b])
                /\ histogram'[b] >= BarFloor
                /\ Decay(90) <= 81 /\ Decay(90) >= BarFloor]_vars
    /\ (<>[](Running /\ ~is_playing))
          => <>[](\A b \in 1..num_bars : histogram[b] = BarFloor)

\* C21 witness: idle ticks after a track was played have brought every bar
\* from its initial value to the floor.
C21_Witness ==
    /\ last.op = "tick"
    /\ pc = "input"
    /\ ~is_playing
    /\ IsSome(selected_track)
    /\ \A b \in 1..num_bars : histogram[b] = BarFloor

\* A select on a directory entry (the parent marker is one) whose read_dir
\* failed: select_item returned the Err and run_app returned it.
FailedNavigation == KeyStep("select") /\ pc' = "exited"

\* A select on a directory entry that listed the directory.
Navigated ==
    /\ KeyStep("select")
    /\ cursor < Len(items)
    /\ IsDir(items[cursor + 1])
    /\ pc' = "tick"

\* C22: when reading a directory fails during navigation, the navigation
\* step is aborted and the prior state is retained: the current directory,
\* the entry list and the cursor are the same as before the failed action.
C22_FailedNavigationRetainsState ==
    [][FailedNavigation
       => /\ current_dir' = current_dir
          /\ items' = items
          /\ cursor' = cursor]_vars

\* C23: after any recoverable error (an open or decode failure on selection,
\* a directory read failure during navigation) the loop keeps running: it
\* goes on to the next tick, and it ends only on the quit command, which
\* runs no handler.
C23_LoopSurvivesErrors ==
    [][/\ (HandlerStep /\ last'.engine = "err") => pc' \in {"tick", "input"}
       /\ FailedNavigation => pc' \in {"tick", "input"}
       /\ pc' = "exited" => (pc = "input" /\ last' = last)]_vars

\* C24: an error message recorded by a failed track selection is cleared by
\* the next action that succeeds, whichever it is: a successful selection,
\* next or previous, a successful toggle restart, or a successful directory
\* navigation.
C24_SuccessClearsError ==
    [][(IsSome(error_message)
          /\ \/ (pc = "input" /\ pc' = "tick" /\ last'.engine = "ok"
                   /\ last'.op \in {"select", "next", "previous", "toggle"})
             \/ Navigated)
       => error_message' = None]_vars

\* C25: when a tick observes the end of the current track with
\* continuous_play disabled, the elapsed time is reset to zero as part of
\* the transition to Stopped.
C25_EndResetsElapsed ==
    [][(TickStep /\ EndOfTrack /\ ~continuous_play
          /\ IsSome(sink) /\ Unwrap(sink).ended)
       => current_time' = 0]_vars

\* C26: the elapsed time never exceeds the total duration: each playing
\* tick sets elapsed to the time since the recorded start instant capped at
\* the total duration, and every step that changes the total duration also
\* resets elapsed.
C26_ElapsedWithinTotal ==
    [][/\ current_time <= total_time
       /\ current_time' <= total_time'
       /\ (TickStep /\ is_playing' /\ IsSome(playback_start'))
          => current_time' = (IF Unwrap(playback_start') > total_time'
                              THEN total_time'
                              ELSE Unwrap(playback_start'))
       /\ total_time' # total_time => current_time' = 0]_vars

\* C26 witness: a playing tick has capped the elapsed time at the total
\* duration, the start instant being further back than that.
C26_Witness ==
    /\ last.op = "tick"
    /\ pc = "input"
    /\ is_playing
    /\ IsSome(playback_start)
    /\ Unwrap(playback_start) > total_time
    /\ current_time = total_time

\* C27: toggle_continuous() flips the continuous_play flag and changes
\* nothing else (transport state, track, index, elapsed time, engine, buffer,
\* volume); applying it twice restores the original state.
C27_ToggleContinuousFrame ==
    [][/\ ToggleContinuousPlay(ToggleContinuousPlay(St)) = St
       /\ KeyStep("continuous")
          => /\ continuous_play' = ~continuous_play
             /\ pc' = "tick"
             /\ last'.engine = "none"
             /\ UNCHANGED <<current_dir, items, cursor, selected_track,
                            current_track_index, is_playing, current_time,
                            total_time, playback_start, histogram,
                            error_message, sink, audio_buffer, sample_rate,
                            total_duration, volume>>]_vars

\* C27 witness: the flag has just been switched on while a track was playing
\* with some time elapsed.
C27_Witness ==
    /\ last.op = "continuous"
    /\ pc = "tick"
    /\ continuous_play
    /\ is_playing
    /\ EngineIsPlaying(St)
    /\ current_time > 0

\* C28: selecting a directory entry or the parent marker is not a transport
\* transition: it changes only the current directory, the listing and the
\* cursor, and leaves the playing state, the selected track, elapsed and
\* total time, the engine and the sample buffer unchanged.
C28_NavigationFrame ==
    [][(KeyStep("select") /\ cursor < Len(items) /\ IsDir(items[cursor + 1]))
       => /\ last'.engine = "none"
          /\ UNCHANGED <<selected_track, current_track_index, is_playing,
                         continuous_play, current_time, total_time,
                         playback_start, histogram, error_message, sink,
                         audio_buffer, sample_rate, total_duration, volume>>
      ]_vars

\* C28 witness: a directory has just been entered while a track of the
\* directory left was playing.
C28_Witness ==
    /\ last.op = "select"
    /\ last.engine = "none"
    /\ pc = "tick"
    /\ current_dir # StartDir(disk)
    /\ cursor = 0
    /\ is_playing
    /\ EngineIsPlaying(St)
    /\ Unwrap(selected_track) \notin {items[i] : i \in 1..Len(items)}

\* The audio thread called next() on the tap of the queued source.
PullStep ==
    /\ IsSome(sink)
    /\ IsSome(sink')
    /\ sink' # sink
    /\ pc' = pc
    /\ last' = last

\* C29: the capture tap forwards the decoded stream unaltered: each call
\* returns what its input returned (the next sample of the stream, none
\* dropped, duplicated or modified), it ends exactly when the input ends,
\* and each forwarded sample is the one recorded in the buffer.
C29_TapForwardsInput ==
    [][PullStep
       => LET cur == Unwrap(sink)
              nxt == Unwrap(sink')
              item == InputNext(cur)
          IN  /\ nxt.yielded = item
              /\ nxt.track = cur.track
              /\ IsSome(item)
                 => /\ item = Some(Sample(cur.track, cur.pos + 1))
                    /\ nxt.pos = cur.pos + 1
                    /\ ~nxt.ended
                    /\ audio_buffer'[Len(audio_buffer')] = Unwrap(nxt.yielded)
              /\ item = None
                 => /\ cur.pos = TrackLen(cur.track)
                    /\ nxt.pos = cur.pos
                    /\ nxt.ended
                    /\ audio_buffer' = audio_buffer]_vars

\* C29 witness: the tap has forwarded a track longer than the buffer to its
\* end and then returned None.
C29_Witness ==
    /\ IsSome(sink)
    /\ Unwrap(sink).ended
    /\ Unwrap(sink).yielded = None
    /\ Unwrap(sink).pos = TrackLen(Unwrap(sink).track)
    /\ Unwrap(sink).pos > max_size
    /\ Len(audio_buffer) = max_size

\* C30: with continuous_play enabled and every engine start succeeding, an
\* end-of-track tick always leaves the transport Playing whenever the
\* listing holds at least one playable entry, the case where the track that
\* just ended is the only playable entry included.
C30_ContinuousKeepsPlaying ==
    [][(TickStep /\ EndOfTrack /\ continuous_play /\ AllPlayable # {}
          /\ IsSome(sink) /\ Unwrap(sink).ended
          /\ last'.engine # "err")
       => /\ pc' = "input"
          /\ is_playing'
          /\ IsSome(sink') /\ ~Unwrap(sink').ended]_vars

\* ------------------------------------------------------------- renderer

\* render_player_info: the status shown for the transport, read from the
\* App the draw closure is given.
Status ==
    IF is_playing THEN "Playing"
    ELSE IF IsSome(selected_track) THEN "Paused"
    ELSE "Stopped"

\* C31: the transport states are distinguishable in what the renderer
\* reports: after a user pause the status is Paused, and after a track ends
\* naturally with continuous_play disabled the status is Stopped, not
\* Paused.
C31_StatusDistinguishesStopped ==
    [][/\ (KeyStep("toggle") /\ is_playing) => Status' = "Paused"
       /\ (TickStep /\ EndOfTrack /\ ~continuous_play
             /\ IsSome(sink) /\ Unwrap(sink).ended)
          => Status' = "Stopped"]_vars

\* A tick that went on to analyse a full window: the transport is Playing
\* after the poll and the advance, and FFT_SIZE samples are captured.
AnalysisStep ==
    /\ TickStep
    /\ pc' = "input"
    /\ is_playing'
    /\ IsSome(playback_start')
    /\ Len(audio_buffer') >= FFT_SIZE

\* C32: on an analysis tick a bar whose band maps to zero transform bins
\* keeps its previous value exactly, while every bar with at least one bin
\* is updated: it becomes 0.7 of its previous value plus 0.3 of a magnitude
\* in [0, 1], clamped to [0.05, 0.95].
C32_EmptyBandsKeepValue ==
    [][AnalysisStep
       => \A i \in Bars :
            /\ BinCount(i, sample_rate') = 0
                 => histogram'[i + 1] = histogram[i + 1]
            /\ BinCount(i, sample_rate') > 0
                 => \E m \in 0..100 :
                       histogram'[i + 1] =
                          Clamp((histogram[i + 1] * 7 + m * 3) \div 10,
                                BarFloor, BarCeil)]_vars

\* C32 witness: analysis ticks have raised the bar that has a bin while the
\* bar without bins still holds the value the idle ticks had left it.
C32_Witness ==
    /\ pc = "input"
    /\ last.op = "tick"
    /\ is_playing
    /\ Len(audio_buffer) >= FFT_SIZE
    /\ BinCount(0, sample_rate) > 0
    /\ BinCount(1, sample_rate) = 0
    /\ histogram[1] > InitialBar
    /\ histogram[2] < InitialBar

\* C33: for every bar and every sample rate the engine reports, 0 and rates
\* whose Nyquist frequency is below max_freq included, the end bin of the
\* band is at most FFT_SIZE / 2 and every bin read from the transform
\* output is below FFT_SIZE / 2, inside the transform buffer.
C33_BinsWithinTransform ==
    \A i \in Bars :
        /\ BinEnd(i, sample_rate) <= FFT_SIZE \div 2
        /\ \A b \in BinsRead(i, sample_rate) :
              b >= 0 /\ b < FFT_SIZE \div 2 /\ b < FFT_SIZE

\* C33 witness: a tick has analysed a full window of the track whose sample
\* rate is 0.
C33_Witness ==
    /\ pc = "input"
    /\ last.op = "tick"
    /\ is_playing
    /\ IsSome(playback_start)
    /\ Len(audio_buffer) >= FFT_SIZE
    /\ sample_rate = 0

\* ------------------------------------------- the bands of the 32-bar frame

\* num_bars of the histogram App::new builds.
HistogramBars == 32

\* min_freq * (max_freq / min_freq).powf(k / 32) for k in 0..32, in tenths of
\* a Hz, tabulated (powf is a primitive of the platform).
BandEdges32 ==
    <<600, 714, 850, 1012, 1206, 1436, 1710, 2036, 2424, 2887, 3437,
      4093, 4874, 5803, 6910, 8228, 9797, 11666, 13891, 16541, 19696,
      23452, 27925, 33251, 39593, 47145, 56137, 66843, 79592, 94773,
      112848, 134371, 160000>>

\* freq_start of bar i: the exponent is i / num_bars.
FreqStart(i) == BandEdges32[i + 1]

\* Mutant of FreqEnd: the exponent of the end is that of the start.
FreqEndSameExponent(i) == BandEdges32[i + 1]

\* freq_end of bar i: the exponent is (i + 1) / num_bars.
FreqEnd(i) == BandEdges32[i + 2]

\* C34: for min_freq = 60, max_freq = 16000 and 32 bars the band edges
\* increase strictly with the bar index: each band starts below its end, and
\* the end of band i does not exceed the start of band i + 1, so bands never
\* overlap.  The same holds of the bands of the frame the ticks analyse.
C34_BandEdgesIncrease ==
    /\ min_freq = 60 /\ max_freq = 16000
    /\ FreqStart(0) = min_freq * 10
    /\ FreqEnd(HistogramBars - 1) = max_freq * 10
    /\ \A i \in 0..(HistogramBars - 1) :
          /\ FreqStart(i) < FreqEnd(i)
          /\ i + 1 < HistogramBars => FreqEnd(i) <= FreqStart(i + 1)
    /\ \A i \in Bars :
          /\ BandEdges[i] < BandEdges[i + 1]
          /\ BinStart(i, sample_rate) <= BinOf(BandEdges[i + 1], sample_rate)

\* C34 witness: a tick has mapped the bands to bins of a full window at a
\* rate at which the first band ends in a lower bin than the second.
C34_Witness ==
    /\ pc = "input"
    /\ last.op = "tick"
    /\ is_playing
    /\ IsSome(playback_start)
    /\ Len(audio_buffer) >= FFT_SIZE
    /\ BinOf(BandEdges[1], sample_rate) < BinOf(BandEdges[2], sample_rate)

\* C35: in every reachable state, after navigating into another directory
\* while a track is selected included, the current track index (when set)
\* is a valid index of the current entry list, and no handler has indexed
\* the entry list out of range (panicked).
C35_TrackIndexValid ==
    /\ IsSome(current_track_index)
         => Unwrap(current_track_index) < Len(items)
    /\ pc # "panicked"

\* C36: a failed track selection never causes a different track to start:
\* with continuous_play enabled, the tick that follows a select, next or
\* previous whose engine start failed while a track was playing does not
\* treat the failure as the end of the track and asks the engine for no
\* other entry.
C36_FailedSelectionStartsNothing ==
    [][(TickStep /\ continuous_play /\ is_playing
          /\ last.op \in {"select", "next", "previous"}
          /\ IsSome(last.asked) /\ last.engine = "err")
       => /\ last'.asked = None
          /\ sink' = sink
          /\ current_track_index' = current_track_index]_vars

\* C37: when toggle_playback restarts the selected track and the engine
\* fails to open it, the transport does not enter Playing and an error
\* message is recorded, and the tick that follows starts no other track.
C37_FailedRestartStaysStopped ==
    [][/\ (KeyStep("toggle") /\ ~is_playing /\ IsSome(selected_track)
             /\ last'.engine = "err")
          => /\ ~is_playing'
             /\ IsSome(error_message')
       /\ (TickStep /\ last.op = "toggle" /\ last.engine = "err")
          => /\ last'.asked = None
             /\ sink' = sink]_vars

\* C38: after any sequence of navigate-down, navigate-up and directory
\* changes the cursor is a valid index of a non-empty entry list: down from
\* the last entry wraps to the first, up from the first wraps to the last,
\* a change of directory puts it on the first entry; and navigating an
\* empty list neither panics nor underflows, the cursor staying where it
\* was.
C38_CursorValid ==
    [][/\ KeyStep("down")
          => /\ pc' # "panicked"
             /\ items # << >>
                  => cursor' = IF cursor = Len(items) - 1 THEN 0 ELSE cursor + 1
             /\ items = << >> => cursor' = cursor
       /\ KeyStep("up")
          => /\ pc' # "panicked"
             /\ items # << >>
                  => cursor' = IF cursor = 0 THEN Len(items) - 1 ELSE cursor - 1
             /\ items = << >> => cursor' = cursor
       /\ (KeyStep("select") /\ pc' = "tick" /\ items' # << >>)
          => cursor' < Len(items')]_vars

\* C39: on every path by which main returns after it has enabled raw mode
\* and entered the alternate screen (quit, an I/O error from the UI loop, or
\* a start-up failure such as the initialisation of the audio device), raw
\* mode is disabled and the alternate screen is left.  The paths on which a
\* call that restores the terminal itself fails are left out.
C39_TerminalRestored ==
    pc \in {"returned", "startup_failed"}
       => ~terminal.raw_mode /\ ~terminal.alternate_screen

====
